---- MODULE Spec2Model ----
(***************************************************************************)
(* Au pair marketplace backend: the match scorer (utils/matching,          *)
(* calculateMatchScore and its helpers), the ranking of GET /potential     *)
(* (findMatches) and the booking routes (routes/bookings.ts) as state      *)
(* machines.                                                               *)
(*                                                                         *)
(* Instants are integers counting 6-hour units, so that the source's       *)
(* 365.25-day year is 1461 units and a day is 4 units.  The sub-scores are *)
(* kept as exact rationals [num, den]; the score itself is computed as the *)
(* engine computes it, in IEEE 754 doubles.                                *)
(***************************************************************************)
EXTENDS Integers, Sequences, FiniteSets, TLC

VARIABLES
    auPairProfile,   \* scorer input: the au pair profile row
    hostProfile,     \* scorer input: the host family profile row
    scoring,         \* result of the last calculateMatchScore call
    now,             \* the clock read by new Date() / Date.now()
    matches,         \* prisma.match rows
    bookings,        \* prisma.booking rows
    nextBookingId,   \* id generator of prisma.booking.create
    handlers,        \* POST / handlers of the booking route, one per request
    users,           \* prisma.user rows with their profiles, in findMany order
    potential        \* last response of GET /potential

vars == <<auPairProfile, hostProfile, scoring, now, matches, bookings,
          nextBookingId, handlers, users, potential>>

(***************************************************************************)
(* Optional values (null / undefined in the source): {} is absent, {v} is  *)
(* the value v.                                                            *)
(***************************************************************************)
None == {}
Some(v) == {v}
IsPresent(o) == o # {}
Val(o) == CHOOSE v \in o : TRUE

SeqsUpTo(S, n) == UNION {[1..k -> S] : k \in 0..n}

(***************************************************************************)
(* JavaScript numbers as exact rationals with a positive denominator.      *)
(***************************************************************************)
RECURSIVE Gcd(_, _)
Gcd(a, b) == IF b = 0 THEN a ELSE Gcd(b, a % b)

Abs(x) == IF x < 0 THEN -x ELSE x

Rat(n, d) ==
    LET g == Gcd(Abs(n), d)
    IN  [num |-> n \div g, den |-> d \div g]

Num(n) == [num |-> n, den |-> 1]
RatAdd(a, b) == Rat(a.num * b.den + b.num * a.den, a.den * b.den)
RatMul(a, b) == Rat(a.num * b.num, a.den * b.den)
RatLeq(a, b) == a.num * b.den <= b.num * a.den

(***************************************************************************)
(* The same numbers as the engine holds them: IEEE 754 binary64 values     *)
(* that are not negative.  A natural number is a sequence of limbs, least  *)
(* significant first, in base 2^14; a double is [m, e], standing for       *)
(* m * 2^e with m below 2^53.  Every operation rounds its exact result to  *)
(* the nearest double, ties to the even mantissa.                          *)
(***************************************************************************)
LimbBits == 14
LimbBase == 16384
Precision == 53

Limb(a, i) == IF i \in DOMAIN a THEN a[i] ELSE 0

RECURSIVE Trim(_)
Trim(a) == IF a # <<>> /\ a[Len(a)] = 0 THEN Trim(SubSeq(a, 1, Len(a) - 1)) ELSE a

RECURSIVE Carry(_, _, _)
Carry(cols, i, c) ==
    IF i > Len(cols) /\ c = 0 THEN <<>>
    ELSE LET v == Limb(cols, i) + c
         IN  <<v % LimbBase>> \o Carry(cols, i + 1, v \div LimbBase)

BigFromInt(n) == Carry(<<n>>, 1, 0)

RECURSIVE BigToInt(_)
BigToInt(a) == IF a = <<>> THEN 0 ELSE a[1] + LimbBase * BigToInt(Tail(a))

BigAdd(a, b) ==
    LET n == IF Len(a) > Len(b) THEN Len(a) ELSE Len(b)
    IN  Carry([i \in 1..n |-> Limb(a, i) + Limb(b, i)], 1, 0)

RECURSIVE ColumnSum(_, _, _, _)
ColumnSum(a, b, k, i) ==
    IF i > Len(a) THEN 0
    ELSE a[i] * Limb(b, k + 1 - i) + ColumnSum(a, b, k, i + 1)

BigMul(a, b) ==
    IF a = <<>> \/ b = <<>> THEN <<>>
    ELSE Trim(Carry([k \in 1..(Len(a) + Len(b) - 1) |-> ColumnSum(a, b, k, 1)], 1, 0))

\* Quotient and remainder of a by d, 0 < d < 2^17.
RECURSIVE BigDivSmallFrom(_, _, _, _)
BigDivSmallFrom(a, d, i, r) ==
    IF i = 0 THEN [q |-> <<>>, r |-> r]
    ELSE LET v == r * LimbBase + a[i]
             rest == BigDivSmallFrom(a, d, i - 1, v % d)
         IN  [q |-> rest.q \o <<v \div d>>, r |-> rest.r]

BigDivSmall(a, d) ==
    LET x == BigDivSmallFrom(a, d, Len(a), 0)
    IN  [q |-> Trim(x.q), r |-> x.r]

RECURSIVE BitsOf(_)
BitsOf(x) == IF x = 0 THEN 0 ELSE 1 + BitsOf(x \div 2)

BitLen(a) == IF a = <<>> THEN 0 ELSE LimbBits * (Len(a) - 1) + BitsOf(a[Len(a)])

ShiftLeft(a, k) ==
    IF a = <<>> THEN <<>>
    ELSE [i \in 1..(k \div LimbBits) |-> 0] \o BigMul(a, <<2 ^ (k % LimbBits)>>)

ShiftRight(a, k) ==
    LET drop == k \div LimbBits
    IN  IF drop >= Len(a) THEN <<>>
        ELSE BigDivSmall(SubSeq(a, drop + 1, Len(a)), 2 ^ (k % LimbBits)).q

\* Some bit of a below bit k is set.
LowBitsSet(a, k) ==
    \/ \E i \in 1..(k \div LimbBits) : Limb(a, i) # 0
    \/ Limb(a, k \div LimbBits + 1) % (2 ^ (k % LimbBits)) # 0

IsOdd(a) == a # <<>> /\ a[1] % 2 = 1

DoubleZero == [m |-> <<>>, e |-> 0]

\* n * 2^e (and a little more when sticky) rounded to the nearest double.
RoundToDouble(n, e, sticky) ==
    IF n = <<>> THEN DoubleZero
    ELSE LET k == BitLen(n) - Precision
         IN  IF k <= 0 THEN [m |-> n, e |-> e]
             ELSE LET q == ShiftRight(n, k)
                      half == IsOdd(ShiftRight(n, k - 1))
                      more == sticky \/ LowBitsSet(n, k - 1)
                      up == half /\ (more \/ IsOdd(q))
                  IN  [m |-> IF up THEN BigAdd(q, <<1>>) ELSE q, e |-> e + k]

\* The double of an integer below 2^31.
DoubleOf(n) == RoundToDouble(BigFromInt(n), 0, FALSE)

\* a / b for integers a >= 0 and 0 < b < 2^17; a decimal literal such as
\* 0.3 is the double DoubleDiv(3, 10).
DoubleDiv(a, b) ==
    LET x == BigDivSmall(ShiftLeft(BigFromInt(a), 5 * LimbBits), b)
    IN  RoundToDouble(x.q, -(5 * LimbBits), x.r # 0)

DoubleMul(x, y) == RoundToDouble(BigMul(x.m, y.m), x.e + y.e, FALSE)

DoubleAdd(x, y) ==
    IF x.m = <<>> THEN y
    ELSE IF y.m = <<>> THEN x
    ELSE LET e == IF x.e < y.e THEN x.e ELSE y.e
         IN  RoundToDouble(BigAdd(ShiftLeft(x.m, x.e - e), ShiftLeft(y.m, y.e - e)),
                           e, FALSE)

\* Math.round: the integer floor(x + 1/2), a tie going towards +infinity.
MathRound(x) ==
    IF x.e >= 0 THEN BigToInt(ShiftLeft(x.m, x.e))
    ELSE BigToInt(ShiftRight(BigAdd(x.m, ShiftLeft(<<1>>, -x.e - 1)), -x.e))

(***************************************************************************)
(* Language and country names are sequences of characters;                 *)
(* String.prototype.toLowerCase maps each character.                       *)
(***************************************************************************)
LowerChar(c) ==
    CASE c = "F" -> "f"
      [] c = "R" -> "r"
      [] c = "E" -> "e"
      [] c = "N" -> "n"
      [] OTHER -> c

toLowerCase(s) == [i \in DOMAIN s |-> LowerChar(s[i])]

\* `x || []`: an absent list reads as the empty list.
OrEmpty(o) == IF IsPresent(o) THEN Val(o) ELSE <<>>

\* Array.prototype.includes: strict equality with some element.
includes(arr, x) == \E i \in DOMAIN arr : arr[i] = x

\* 365.25 * 24 * 60 * 60 * 1000 ms and 1000 * 60 * 60 * 24 ms, in 6-hour units.
YearUnits == 1461
DayUnits == 4

\* Mutant: counts the preferred languages that are spoken, not the spoken
\* languages that are preferred.
calculateLanguageMatchByPreferred(auPairLangs, hostPreferredLangs) ==
    IF Len(hostPreferredLangs) = 0 THEN Num(100)
    ELSE LET isSpoken(preferred) ==
                 \E i \in DOMAIN auPairLangs :
                     toLowerCase(preferred) = toLowerCase(auPairLangs[i])
             spoken == SelectSeq(hostPreferredLangs, isSpoken)
         IN  RatMul(Rat(Len(spoken), Len(hostPreferredLangs)), Num(100))

\* Mutant: lower-cases the au pair's language only.
calculateLanguageMatchOneSided(auPairLangs, hostPreferredLangs) ==
    IF Len(hostPreferredLangs) = 0 THEN Num(100)
    ELSE LET isCommon(lang) ==
                 \E j \in DOMAIN hostPreferredLangs :
                     hostPreferredLangs[j] = toLowerCase(lang)
             commonLanguages == SelectSeq(auPairLangs, isCommon)
         IN  RatMul(Rat(Len(commonLanguages), Len(hostPreferredLangs)), Num(100))

calculateLanguageMatch(auPairLangs, hostPreferredLangs) ==
    IF Len(hostPreferredLangs) = 0 THEN Num(100)
    ELSE LET isCommon(lang) ==
                 \E j \in DOMAIN hostPreferredLangs :
                     toLowerCase(hostPreferredLangs[j]) = toLowerCase(lang)
             commonLanguages == SelectSeq(auPairLangs, isCommon)
         IN  RatMul(Rat(Len(commonLanguages), Len(hostPreferredLangs)), Num(100))

\* Mutant: compares countries case-insensitively, as languages are.
countryPointsIgnoringCase(preferredCountries, country) ==
    IF IsPresent(preferredCountries)
       /\ IsPresent(country)
       /\ \E i \in DOMAIN Val(preferredCountries) :
              toLowerCase(Val(preferredCountries)[i]) = toLowerCase(Val(country))
    THEN 25 ELSE 0

\* auPairProfile.preferredCountries?.includes(hostProfile.country) ? 25 : 0
countryPoints(preferredCountries, country) ==
    IF IsPresent(preferredCountries)
       /\ IsPresent(country)
       /\ includes(Val(preferredCountries), Val(country))
    THEN 25 ELSE 0

\* Mutant: the upper age of the young-children rule is exclusive.
calculateAgeMatchExclusive(auPairBirthDate, childrenAges, clock) ==
    IF ~IsPresent(auPairBirthDate) \/ Len(childrenAges) = 0 THEN 50
    ELSE LET auPairAge == (clock - Val(auPairBirthDate)) \div YearUnits
             hasYoungChildren == \E i \in DOMAIN childrenAges : childrenAges[i] <= 10
             hasTeens == \E i \in DOMAIN childrenAges : childrenAges[i] >= 11
         IN  IF hasYoungChildren /\ auPairAge >= 18 /\ auPairAge < 30 THEN 100
             ELSE IF hasTeens /\ auPairAge >= 20 /\ auPairAge <= 35 THEN 100
             ELSE IF auPairAge >= 18 /\ auPairAge <= 35 THEN 70
             ELSE 30

calculateAgeMatch(auPairBirthDate, childrenAges, clock) ==
    IF ~IsPresent(auPairBirthDate) \/ Len(childrenAges) = 0 THEN 50
    ELSE LET auPairAge == (clock - Val(auPairBirthDate)) \div YearUnits
             hasYoungChildren == \E i \in DOMAIN childrenAges : childrenAges[i] <= 10
             hasTeens == \E i \in DOMAIN childrenAges : childrenAges[i] >= 11
         IN  IF hasYoungChildren /\ auPairAge >= 18 /\ auPairAge <= 30 THEN 100
             ELSE IF hasTeens /\ auPairAge >= 20 /\ auPairAge <= 35 THEN 100
             ELSE IF auPairAge >= 18 /\ auPairAge <= 35 THEN 70
             ELSE 30

\* Mutant: the end of the availability window is exclusive.
calculateAvailabilityMatchOpenEnd(auPairFrom, auPairTo, hostPreferredStart) ==
    IF ~IsPresent(auPairFrom) \/ ~IsPresent(auPairTo) \/ ~IsPresent(hostPreferredStart)
    THEN 50
    ELSE LET from == Val(auPairFrom)
             to == Val(auPairTo)
             start == Val(hostPreferredStart)
             timeDiff == Abs(start - from)
             daysDiff == Rat(timeDiff, DayUnits)
         IN  IF start >= from /\ start < to THEN 100
             ELSE IF RatLeq(daysDiff, Num(30)) THEN 80
             ELSE IF RatLeq(daysDiff, Num(90)) THEN 60
             ELSE IF RatLeq(daysDiff, Num(180)) THEN 30
             ELSE 10

calculateAvailabilityMatch(auPairFrom, auPairTo, hostPreferredStart) ==
    IF ~IsPresent(auPairFrom) \/ ~IsPresent(auPairTo) \/ ~IsPresent(hostPreferredStart)
    THEN 50
    ELSE LET from == Val(auPairFrom)
             to == Val(auPairTo)
             start == Val(hostPreferredStart)
             timeDiff == Abs(start - from)
             daysDiff == Rat(timeDiff, DayUnits)
         IN  IF start >= from /\ start <= to THEN 100
             ELSE IF RatLeq(daysDiff, Num(30)) THEN 80
             ELSE IF RatLeq(daysDiff, Num(90)) THEN 60
             ELSE IF RatLeq(daysDiff, Num(180)) THEN 30
             ELSE 10

\* A number is falsy when it is absent or 0.
Falsy(n) == ~IsPresent(n) \/ Val(n) = 0

calculateBudgetMatch(auPairRate, hostBudget) ==
    IF Falsy(auPairRate) \/ Falsy(hostBudget) THEN 50
    ELSE LET rate == Val(auPairRate)
             budget == Val(hostBudget)
             overBudgetRatio == Rat(rate, budget)
         IN  IF rate <= budget THEN 100
             ELSE IF RatLeq(overBudgetRatio, Rat(12, 10)) THEN 70
             ELSE IF RatLeq(overBudgetRatio, Rat(15, 10)) THEN 40
             ELSE 10

\* A statement that calls a method (`.length`, `.filter`, `.some`,
\* `.includes`, `.getTime()`) of an absent value throws a TypeError.  The
\* language lists are defaulted to [] before the call.
calculateLanguageMatchThrows(languages, preferredLanguages) ==
    ~IsPresent(Some(OrEmpty(languages))) \/ ~IsPresent(Some(OrEmpty(preferredLanguages)))

\* `?.` calls includes only on a present list.
countryPointsThrows(preferredCountries) ==
    IsPresent(preferredCountries) /\ ~IsPresent(preferredCountries)

\* Mutant: calculateAgeMatch without the test of the birth date.
calculateAgeMatchThrowsUnguarded(auPairBirthDate, childrenAges) ==
    IF Len(childrenAges) = 0 THEN FALSE ELSE ~IsPresent(auPairBirthDate)

calculateAgeMatchThrows(auPairBirthDate, childrenAges) ==
    IF ~IsPresent(auPairBirthDate) \/ Len(childrenAges) = 0
    THEN FALSE
    ELSE ~IsPresent(auPairBirthDate)

calculateAvailabilityMatchThrows(auPairFrom, auPairTo, hostPreferredStart) ==
    IF ~IsPresent(auPairFrom) \/ ~IsPresent(auPairTo) \/ ~IsPresent(hostPreferredStart)
    THEN FALSE
    ELSE IF Val(hostPreferredStart) >= Val(auPairFrom)
            /\ Val(hostPreferredStart) <= Val(auPairTo)
    THEN FALSE
    ELSE ~IsPresent(hostPreferredStart) \/ ~IsPresent(auPairFrom)

scoreThrows(ap, hp, clock) ==
    \/ calculateLanguageMatchThrows(ap.languages, hp.preferredLanguages)
    \/ countryPointsThrows(ap.preferredCountries)
    \/ calculateAgeMatchThrows(ap.dateOfBirth, OrEmpty(hp.childrenAges))
    \/ calculateAvailabilityMatchThrows(ap.availableFrom, ap.availableTo, Some(clock))

\* The locals of calculateMatchScore after its last statement; `clock` is
\* the instant read by Date.now() and new Date() during the call.
scoreParts(ap, hp, clock) ==
    LET languageScore ==
            calculateLanguageMatch(OrEmpty(ap.languages), OrEmpty(hp.preferredLanguages))
        country == countryPoints(ap.preferredCountries, hp.country)
        ageScore == calculateAgeMatch(ap.dateOfBirth, OrEmpty(hp.childrenAges), clock)
        availabilityScore ==
            calculateAvailabilityMatch(ap.availableFrom, ap.availableTo, Some(clock))
        budgetScore == calculateBudgetMatch(ap.hourlyRate, hp.maxBudget)
        s1 == RatAdd(Num(0), RatMul(languageScore, Rat(3, 10)))
        s2 == RatAdd(s1, Num(country))
        s3 == RatAdd(s2, RatMul(Num(ageScore), Rat(2, 10)))
        s4 == RatAdd(s3, RatMul(Num(availabilityScore), Rat(15, 100)))
        s5 == RatAdd(s4, RatMul(Num(budgetScore), Rat(1, 10)))
    IN  [languageScore |-> languageScore,
         ageScore |-> ageScore,
         availabilityScore |-> availabilityScore,
         budgetScore |-> budgetScore,
         steps |-> <<s1, s2, s3, s4, s5>>,
         score |-> s5]

\* The literals of calculateMatchScore as doubles.
LanguageWeight == DoubleDiv(3, 10)
AgeWeight == DoubleDiv(2, 10)
AvailabilityWeight == DoubleDiv(15, 100)
BudgetWeight == DoubleDiv(1, 10)
Hundred == DoubleOf(100)

\* The double in `score` at the return statement.  The quotient
\* commonLanguages.length / hostPreferredLangs.length is the double nearest
\* to languageScore / 100, which is then multiplied by 100; the other
\* sub-scores are integers.
scoreDouble(ap, hp, clock) ==
    LET p == scoreParts(ap, hp, clock)
        languageScore ==
            DoubleMul(DoubleDiv(p.languageScore.num, 100 * p.languageScore.den), Hundred)
        d1 == DoubleAdd(DoubleZero, DoubleMul(languageScore, LanguageWeight))
        d2 == DoubleAdd(d1, DoubleOf(countryPoints(ap.preferredCountries, hp.country)))
        d3 == DoubleAdd(d2, DoubleMul(DoubleOf(p.ageScore), AgeWeight))
        d4 == DoubleAdd(d3, DoubleMul(DoubleOf(p.availabilityScore), AvailabilityWeight))
        d5 == DoubleAdd(d4, DoubleMul(DoubleOf(p.budgetScore), BudgetWeight))
    IN  d5

calculateMatchScore(ap, hp, clock) == MathRound(scoreDouble(ap, hp, clock))

(***************************************************************************)
(* Inputs of the scorer.  Each factor's fields are drawn from a set that   *)
(* hits every branch and both sides of every threshold; a run focuses on   *)
(* one factor (its full set, the other factors' fields absent), on the sum *)
(* (every factor a set that produces each of its sub-scores), on language  *)
(* ratios in thirds, or on the presence and absence of every field.        *)
(***************************************************************************)
MaxLangs == 2        \* longest language list of the language focus
MaxTime == 2         \* last instant of the clock

Fr == <<"f", "r">>
FrCap == <<"F", "r">>
FrUpper == <<"F", "R">>
En == <<"e", "n">>
Da == <<"d", "a">>
Sv == <<"s", "v">>
No == <<"n", "o">>
LangStrings == {Fr, FrCap, En}
LanguageLists == {None} \cup {Some(l) : l \in SeqsUpTo(LangStrings, MaxLangs)}

Factors == {"language", "country", "age", "availability", "budget", "sum",
            "thirds", "presence"}

\* Birth dates on the eve of the 18th, 20th, 31st and 36th birthday at instant 0.
BirthEve(age) == 1 - age * YearUnits

LanguageCases(tier) ==
    IF tier = "full"
    THEN [languages : LanguageLists, preferredLanguages : LanguageLists]
    ELSE IF tier = "cover"
    THEN [languages : {None, Some(<<FrCap>>), Some(<<Fr, FrCap>>)},
          preferredLanguages : {None, Some(<<Fr>>), Some(<<FrUpper, En>>)}]
    ELSE IF tier = "thirds"
    THEN [languages : {Some(<<Da>>), Some(<<Da, Sv>>)},
          preferredLanguages : {Some(<<Da, Sv, No>>)}]
    ELSE IF tier = "presence"
    THEN [languages : {None, Some(<<Fr>>)}, preferredLanguages : {None, Some(<<Fr>>)}]
    ELSE {[languages |-> None, preferredLanguages |-> None]}

CountryCases(tier) ==
    IF tier = "full"
    THEN [preferredCountries : {None, Some(<<>>), Some(<<FrUpper>>), Some(<<En, Fr>>)},
          country : {None, Some(FrUpper), Some(Fr)}]
    ELSE IF tier = "cover"
    THEN [preferredCountries : {Some(<<FrUpper>>)}, country : {Some(FrUpper), Some(Fr)}]
    ELSE IF tier = "presence"
    THEN [preferredCountries : {None, Some(<<FrUpper>>)}, country : {None, Some(FrUpper)}]
    ELSE {[preferredCountries |-> None, country |-> None]}

AgeCases(tier) ==
    IF tier = "full"
    THEN [dateOfBirth : {None} \cup {Some(BirthEve(a)) : a \in {18, 20, 31, 36}},
          childrenAges : {None, Some(<<>>), Some(<<10>>), Some(<<11>>), Some(<<11, 10>>)}]
    ELSE IF tier = "cover"
    THEN {[dateOfBirth |-> None, childrenAges |-> None]}
         \cup [dateOfBirth : {Some(BirthEve(a)) : a \in {18, 31, 36}},
               childrenAges : {Some(<<10>>)}]
    ELSE IF tier = "presence"
    THEN [dateOfBirth : {None, Some(BirthEve(18))}, childrenAges : {None, Some(<<10>>)}]
    ELSE {[dateOfBirth |-> None, childrenAges |-> None]}

AvailabilityCases(tier) ==
    IF tier = "full"
    THEN [availableFrom : {None} \cup {Some(t) : t \in {1, 1 + 30 * DayUnits,
                                                       1 - 30 * DayUnits,
                                                       1 - 90 * DayUnits,
                                                       1 - 180 * DayUnits}},
          availableTo : {None, Some(-1), Some(1)}]
    ELSE IF tier = "cover"
    THEN {[availableFrom |-> None, availableTo |-> None],
          [availableFrom |-> Some(1 - 30 * DayUnits), availableTo |-> Some(1)],
          [availableFrom |-> Some(1), availableTo |-> Some(-1)],
          [availableFrom |-> Some(1 - 90 * DayUnits), availableTo |-> Some(-1)],
          [availableFrom |-> Some(1 - 180 * DayUnits), availableTo |-> Some(-1)]}
    ELSE IF tier = "presence"
    THEN [availableFrom : {None, Some(1)}, availableTo : {None, Some(1)}]
    ELSE {[availableFrom |-> None, availableTo |-> None]}

BudgetCases(tier) ==
    IF tier = "full"
    THEN [hourlyRate : {None} \cup {Some(r) : r \in {0, 10, 12, 13, 15, 16}},
          maxBudget : {None, Some(0), Some(10)}]
    ELSE IF tier = "cover"
    THEN {[hourlyRate |-> None, maxBudget |-> None]}
         \cup [hourlyRate : {Some(r) : r \in {10, 12, 15, 16}}, maxBudget : {Some(10)}]
    ELSE IF tier = "presence"
    THEN [hourlyRate : {None, Some(10)}, maxBudget : {None, Some(10)}]
    ELSE {[hourlyRate |-> None, maxBudget |-> None]}

Tier(focus, factor) ==
    IF focus = factor THEN "full"
    ELSE IF focus = "sum" THEN "cover"
    ELSE IF focus = "thirds" THEN (IF factor = "language" THEN "thirds" ELSE "cover")
    ELSE IF focus = "presence" THEN "presence"
    ELSE "small"

ScorerInit ==
    \E focus \in Factors :
        \E l \in LanguageCases(Tier(focus, "language")),
           c \in CountryCases(Tier(focus, "country")),
           a \in AgeCases(Tier(focus, "age")),
           v \in AvailabilityCases(Tier(focus, "availability")),
           b \in BudgetCases(Tier(focus, "budget")) :
            /\ auPairProfile = [languages |-> l.languages,
                                preferredCountries |-> c.preferredCountries,
                                dateOfBirth |-> a.dateOfBirth,
                                availableFrom |-> v.availableFrom,
                                availableTo |-> v.availableTo,
                                hourlyRate |-> b.hourlyRate]
            /\ hostProfile = [preferredLanguages |-> l.preferredLanguages,
                              country |-> c.country,
                              childrenAges |-> a.childrenAges,
                              maxBudget |-> b.maxBudget]
            /\ scoring = None

\* No user row and no ranking request.
NoRanking ==
    /\ users = <<>>
    /\ potential = None

\* The store of the routes, empty, and no request in flight.
StoreIdle ==
    /\ matches = {}
    /\ bookings = {}
    /\ nextBookingId = 1
    /\ handlers = <<>>

\* The clock advances.
Tick ==
    /\ now < MaxTime
    /\ now' = now + 1
    /\ UNCHANGED <<users, potential, auPairProfile, hostProfile, scoring, matches,
                   bookings, nextBookingId, handlers>>

\* One call calculateMatchScore(auPairProfile, hostProfile) at the current instant.
CalculateMatchScore ==
    /\ scoring = None
    /\ scoring' = Some([clock |-> now,
                        threw |-> scoreThrows(auPairProfile, hostProfile, now),
                        parts |-> scoreParts(auPairProfile, hostProfile, now),
                        result |-> calculateMatchScore(auPairProfile, hostProfile, now)])
    /\ UNCHANGED <<users, potential, auPairProfile, hostProfile, now, matches, bookings,
                   nextBookingId, handlers>>

InitScore == ScorerInit /\ now = 0 /\ StoreIdle /\ NoRanking
NextScore == Tick \/ CalculateMatchScore
SpecScore == InitScore /\ [][NextScore]_vars

\* The scorer on the profiles that have a language list.
InitCase ==
    /\ InitScore
    /\ IsPresent(auPairProfile.languages) \/ IsPresent(hostProfile.preferredLanguages)
SpecCase == InitCase /\ [][NextScore]_vars

(***************************************************************************)
(* The booking routes.  Users are fixed rows of prisma.user; req.user is   *)
(* the authenticated row.  A booking row keeps the fields the scheduling   *)
(* logic reads: id, auPairId, hostId, startDate, endDate, status.          *)
(***************************************************************************)
MaxBookings == 2     \* bookings created in a run

UserTable ==
    [a1 |-> [role |-> "AU_PAIR", isActive |-> TRUE],
     a2 |-> [role |-> "AU_PAIR", isActive |-> TRUE],
     h1 |-> [role |-> "HOST_FAMILY", isActive |-> TRUE]]
UserIds == DOMAIN UserTable
Targets == {None} \cup {Some(u) : u \in UserIds \cup {"ghost"}}
BookingIds == 1..MaxBookings
Instants == 0..MaxTime

\* A date of a request body: absent, a string new Date() cannot parse (the
\* Invalid Date, whose comparisons are all false), or an instant.
AbsentDate == [kind |-> "absent", t |-> 0]
InvalidDate == [kind |-> "invalid", t |-> 0]
ValidDate(t) == [kind |-> "valid", t |-> t]
DateInputs == {AbsentDate, InvalidDate} \cup {ValidDate(t) : t \in Instants}
Truthy(d) == d.kind # "absent"
IsNaN(d) == d.kind = "invalid"
DateGE(a, b) == ~IsNaN(a) /\ ~IsNaN(b) /\ a.t >= b.t
DateLT(a, clock) == ~IsNaN(a) /\ a.t < clock

Reply(code, msg) == [code |-> code, msg |-> msg]
Pass == Reply(0, "pass")

\* hostId / auPairId of the row a request of userId about targetUserId concerns.
HostOf(userId, targetUserId) ==
    IF UserTable[userId].role = "HOST_FAMILY" THEN userId ELSE targetUserId
AuPairOf(userId, targetUserId) ==
    IF UserTable[userId].role = "AU_PAIR" THEN userId ELSE targetUserId

ActiveStatuses == {"PENDING", "APPROVED"}

\* Mutant: the conflict query without its status filter.
ConflictingBookingAnyStatus(bks, auPairId, start, end) ==
    {b \in bks :
        /\ b.auPairId = auPairId
        /\ \/ (b.startDate <= start /\ b.endDate >= start)
           \/ (b.startDate <= end /\ b.endDate >= end)
           \/ (b.startDate >= start /\ b.endDate <= end)}

\* Mutant: the conflict query without its third condition.
ConflictingBookingNoInside(bks, auPairId, start, end) ==
    {b \in bks :
        /\ b.auPairId = auPairId
        /\ b.status \in ActiveStatuses
        /\ \/ (b.startDate <= start /\ b.endDate >= start)
           \/ (b.startDate <= end /\ b.endDate >= end)}

\* The rows prisma.booking.findFirst can return for the conflict query.
ConflictingBooking(bks, auPairId, start, end) ==
    {b \in bks :
        /\ b.auPairId = auPairId
        /\ b.status \in ActiveStatuses
        /\ \/ (b.startDate <= start /\ b.endDate >= start)
           \/ (b.startDate <= end /\ b.endDate >= end)
           \/ (b.startDate >= start /\ b.endDate <= end)}

\* Mutant: a start at the current instant counts as past.
ValidateCreateNowInPast(targetUserId, startDate, endDate, clock) ==
    IF ~IsPresent(targetUserId) \/ ~Truthy(startDate) \/ ~Truthy(endDate)
    THEN Reply(400, "required")
    ELSE IF DateGE(startDate, endDate) THEN Reply(400, "endNotAfterStart")
    ELSE IF ~IsNaN(startDate) /\ startDate.t <= clock THEN Reply(400, "startInPast")
    ELSE Pass

\* POST /: the checks before each await, in order.
ValidateCreate(targetUserId, startDate, endDate, clock) ==
    IF ~IsPresent(targetUserId) \/ ~Truthy(startDate) \/ ~Truthy(endDate)
    THEN Reply(400, "required")
    ELSE IF DateGE(startDate, endDate) THEN Reply(400, "endNotAfterStart")
    ELSE IF DateLT(startDate, clock) THEN Reply(400, "startInPast")
    ELSE Pass

CheckTarget(userId, targetUserId) ==
    IF targetUserId \notin UserIds \/ ~UserTable[targetUserId].isActive
    THEN Reply(404, "targetNotFound")
    ELSE LET userRole == UserTable[userId].role
             targetRole == UserTable[targetUserId].role
         IN  IF \/ (userRole = "AU_PAIR" /\ targetRole # "HOST_FAMILY")
                \/ (userRole = "HOST_FAMILY" /\ targetRole # "AU_PAIR")
             THEN Reply(400, "roles")
             ELSE Pass

\* Mutant: a match of any status admits the booking.
CheckMatchAnyStatus(userId, targetUserId, mts) ==
    IF \E m \in mts :
           /\ m.hostId = HostOf(userId, targetUserId)
           /\ m.auPairId = AuPairOf(userId, targetUserId)
    THEN Pass
    ELSE Reply(403, "noApprovedMatch")

CheckMatch(userId, targetUserId, mts) ==
    IF \E m \in mts :
           /\ m.hostId = HostOf(userId, targetUserId)
           /\ m.auPairId = AuPairOf(userId, targetUserId)
           /\ m.status = "APPROVED"
    THEN Pass
    ELSE Reply(403, "noApprovedMatch")

\* The query throws on an Invalid Date and the catch block answers 500.
CheckConflict(userId, targetUserId, startDate, endDate, bks) ==
    IF IsNaN(startDate) \/ IsNaN(endDate) THEN Reply(500, "error")
    ELSE IF ConflictingBooking(bks, AuPairOf(userId, targetUserId),
                               startDate.t, endDate.t) # {}
    THEN Reply(400, "conflict")
    ELSE Pass

NewBooking(id, userId, targetUserId, startDate, endDate) ==
    [id |-> id,
     auPairId |-> AuPairOf(userId, targetUserId),
     hostId |-> HostOf(userId, targetUserId),
     startDate |-> startDate.t,
     endDate |-> endDate.t,
     status |-> "PENDING"]

\* The response of POST / when the handler runs without interleaving.
CreateBookingReply(userId, targetUserId, startDate, endDate, mts, bks, clock) ==
    LET v == ValidateCreate(targetUserId, startDate, endDate, clock)
    IN  IF v # Pass THEN v
        ELSE LET t == CheckTarget(userId, Val(targetUserId))
             IN  IF t # Pass THEN t
                 ELSE LET m == CheckMatch(userId, Val(targetUserId), mts)
                      IN  IF m # Pass THEN m
                          ELSE LET c == CheckConflict(userId, Val(targetUserId),
                                                      startDate, endDate, bks)
                               IN  IF c # Pass THEN c ELSE Reply(201, "created")

\* The booking table after POST / (a row is written on 201 only).
BookingsAfterCreate(userId, targetUserId, startDate, endDate, mts, bks, clock, id) ==
    IF CreateBookingReply(userId, targetUserId, startDate, endDate, mts, bks, clock).code = 201
    THEN bks \cup {NewBooking(id, userId, Val(targetUserId), startDate, endDate)}
    ELSE bks

\* POST /
CreateBooking(userId, targetUserId, startDate, endDate) ==
    LET r == CreateBookingReply(userId, targetUserId, startDate, endDate,
                                matches, bookings, now)
    IN  /\ nextBookingId <= MaxBookings
        /\ bookings' = BookingsAfterCreate(userId, targetUserId, startDate, endDate,
                                           matches, bookings, now, nextBookingId)
        /\ nextBookingId' = IF r.code = 201 THEN nextBookingId + 1 ELSE nextBookingId
        /\ UNCHANGED <<users, potential, auPairProfile, hostProfile, scoring, now,
                       matches, handlers>>

IsParty(b, userId) == b.auPairId = userId \/ b.hostId = userId

\* GET /:bookingId: the status of the response and the booking it carries.
GetBookingReply(userId, bookingId, bks) ==
    LET found == {b \in bks : b.id = bookingId}
    IN  IF found = {} THEN [code |-> 404, booking |-> None]
        ELSE IF ~IsParty(Val(found), userId) THEN [code |-> 403, booking |-> None]
        ELSE [code |-> 200, booking |-> found]

\* The handler reads and writes nothing.
GetBooking(userId, bookingId) ==
    /\ GetBookingReply(userId, bookingId, bookings).code \in {200, 403, 404}
    /\ UNCHANGED vars

\* Mutant: the status update accepts every status.
UpdateStatusReplyAnyStatus(userId, bookingId, status, bks, clock) ==
    LET found == {b \in bks : b.id = bookingId}
    IN  IF found = {} THEN Reply(404, "bookingNotFound")
        ELSE LET booking == Val(found)
             IN  IF ~IsParty(booking, userId) THEN Reply(403, "notParty")
                 ELSE IF status = "COMPLETED" /\ booking.endDate > clock
                 THEN Reply(400, "notEnded")
                 ELSE IF status = "APPROVED" /\ booking.startDate < clock
                 THEN Reply(400, "alreadyStarted")
                 ELSE Reply(200, "statusUpdated")

\* Mutant: the status update completes a booking before its end.
UpdateStatusReplyBeforeEnd(userId, bookingId, status, bks, clock) ==
    IF status \notin {"APPROVED", "REJECTED", "CANCELLED", "COMPLETED"}
    THEN Reply(400, "invalidStatus")
    ELSE LET found == {b \in bks : b.id = bookingId}
         IN  IF found = {} THEN Reply(404, "bookingNotFound")
             ELSE LET booking == Val(found)
                  IN  IF ~IsParty(booking, userId) THEN Reply(403, "notParty")
                      ELSE IF status = "APPROVED" /\ booking.startDate < clock
                      THEN Reply(400, "alreadyStarted")
                      ELSE Reply(200, "statusUpdated")

\* PUT /:bookingId/status
UpdateStatusReply(userId, bookingId, status, bks, clock) ==
    IF status \notin {"APPROVED", "REJECTED", "CANCELLED", "COMPLETED"}
    THEN Reply(400, "invalidStatus")
    ELSE LET found == {b \in bks : b.id = bookingId}
         IN  IF found = {} THEN Reply(404, "bookingNotFound")
             ELSE LET booking == Val(found)
                  IN  IF ~IsParty(booking, userId) THEN Reply(403, "notParty")
                      ELSE IF status = "COMPLETED" /\ booking.endDate > clock
                      THEN Reply(400, "notEnded")
                      ELSE IF status = "APPROVED" /\ booking.startDate < clock
                      THEN Reply(400, "alreadyStarted")
                      ELSE Reply(200, "statusUpdated")

BookingsAfterStatus(userId, bookingId, status, bks, clock) ==
    IF UpdateStatusReply(userId, bookingId, status, bks, clock).code = 200
    THEN {IF b.id = bookingId THEN [b EXCEPT !.status = status] ELSE b : b \in bks}
    ELSE bks

UpdateBookingStatus(userId, bookingId, status) ==
    /\ bookings' = BookingsAfterStatus(userId, bookingId, status, bookings, now)
    /\ UNCHANGED <<users, potential, auPairProfile, hostProfile, scoring, now, matches,
                   nextBookingId, handlers>>

\* Mutant: the details update of a booking of any status.
UpdateBookingReplyAnyStatus(userId, bookingId, startDate, endDate, bks, clock) ==
    LET found == {b \in bks : b.id = bookingId}
    IN  IF found = {} THEN Reply(404, "bookingNotFound")
        ELSE LET booking == Val(found)
             IN  IF ~IsParty(booking, userId) THEN Reply(403, "notParty")
                 ELSE IF Truthy(startDate) /\ Truthy(endDate) /\ DateGE(startDate, endDate)
                 THEN Reply(400, "endNotAfterStart")
                 ELSE IF Truthy(startDate) /\ DateLT(startDate, clock)
                 THEN Reply(400, "startInPast")
                 ELSE IF IsNaN(startDate) \/ IsNaN(endDate) THEN Reply(500, "error")
                 ELSE Reply(200, "updated")

\* Mutant: the delete handler without the test of the parties.
DeleteBookingReplyByAnyone(userId, bookingId, bks) ==
    LET found == {b \in bks : b.id = bookingId}
    IN  IF found = {} THEN Reply(404, "bookingNotFound")
        ELSE LET booking == Val(found)
             IN  IF booking.status \notin {"PENDING", "REJECTED", "CANCELLED"}
                 THEN Reply(400, "notDeletable")
                 ELSE Reply(200, "deleted")

\* PUT /:bookingId (the update throws on an Invalid Date: 500).  One update
\* statement writes the dates and the other details of the request.
UpdateBookingReply(userId, bookingId, startDate, endDate, bks, clock) ==
    LET found == {b \in bks : b.id = bookingId}
    IN  IF found = {} THEN Reply(404, "bookingNotFound")
        ELSE LET booking == Val(found)
             IN  IF ~IsParty(booking, userId) THEN Reply(403, "notParty")
                 ELSE IF booking.status # "PENDING" THEN Reply(400, "notPending")
                 ELSE IF Truthy(startDate) /\ Truthy(endDate) /\ DateGE(startDate, endDate)
                 THEN Reply(400, "endNotAfterStart")
                 ELSE IF Truthy(startDate) /\ DateLT(startDate, clock)
                 THEN Reply(400, "startInPast")
                 ELSE IF IsNaN(startDate) \/ IsNaN(endDate) THEN Reply(500, "error")
                 ELSE Reply(200, "updated")

BookingsAfterUpdate(userId, bookingId, startDate, endDate, bks, clock) ==
    LET updated(b) ==
            [b EXCEPT !.startDate = IF Truthy(startDate) THEN startDate.t ELSE @,
                      !.endDate = IF Truthy(endDate) THEN endDate.t ELSE @]
    IN  IF UpdateBookingReply(userId, bookingId, startDate, endDate, bks, clock).code = 200
        THEN {IF b.id = bookingId THEN updated(b) ELSE b : b \in bks}
        ELSE bks

UpdateBooking(userId, bookingId, startDate, endDate) ==
    /\ bookings' = BookingsAfterUpdate(userId, bookingId, startDate, endDate, bookings, now)
    /\ UNCHANGED <<users, potential, auPairProfile, hostProfile, scoring, now, matches,
                   nextBookingId, handlers>>

\* DELETE /:bookingId
DeleteBookingReply(userId, bookingId, bks) ==
    LET found == {b \in bks : b.id = bookingId}
    IN  IF found = {} THEN Reply(404, "bookingNotFound")
        ELSE LET booking == Val(found)
             IN  IF ~IsParty(booking, userId) THEN Reply(403, "notParty")
                 ELSE IF booking.status \notin {"PENDING", "REJECTED", "CANCELLED"}
                 THEN Reply(400, "notDeletable")
                 ELSE Reply(200, "deleted")

BookingsAfterDelete(userId, bookingId, bks) ==
    IF DeleteBookingReply(userId, bookingId, bks).code = 200
    THEN {b \in bks : b.id # bookingId}
    ELSE bks

DeleteBooking(userId, bookingId) ==
    /\ bookings' = BookingsAfterDelete(userId, bookingId, bookings)
    /\ UNCHANGED <<users, potential, auPairProfile, hostProfile, scoring, now, matches,
                   nextBookingId, handlers>>

\* GET /au-pair/:auPairId/availability: the status and the booked slots of
\* the response (the slots as a set: orderBy startDate arranges them).
AvailabilityReply(auPairId, startDate, endDate, bks, clock) ==
    IF \/ auPairId \notin UserIds
       \/ UserTable[auPairId].role # "AU_PAIR"
       \/ ~UserTable[auPairId].isActive
    THEN [code |-> 404, bookedSlots |-> {}]
    ELSE IF Truthy(startDate) /\ Truthy(endDate)
    THEN IF IsNaN(startDate) \/ IsNaN(endDate)
         THEN [code |-> 500, bookedSlots |-> {}]
         ELSE [code |-> 200,
               bookedSlots |->
                   {b \in bks : /\ b.auPairId = auPairId
                                /\ b.status \in ActiveStatuses
                                /\ b.startDate <= endDate.t
                                /\ b.endDate >= startDate.t}]
    ELSE [code |-> 200,
          bookedSlots |-> {b \in bks : /\ b.auPairId = auPairId
                                       /\ b.status \in ActiveStatuses
                                       /\ b.startDate >= clock}]

\* The handler reads and writes nothing.
GetAvailability(auPairId, startDate, endDate) ==
    /\ AvailabilityReply(auPairId, startDate, endDate, bookings, now).code
           \in {200, 404, 500}
    /\ UNCHANGED vars

\* The match rows the booking routes read: for each host and au pair at
\* most one row (routes/matches.ts writes them).
Pairs == {<<"h1", "a1">>, <<"h1", "a2">>}
MatchTables ==
    {{[hostId |-> p[1], auPairId |-> p[2], status |-> st[p]] :
         p \in {q \in Pairs : st[q] # "NONE"}} :
       st \in [Pairs -> {"NONE", "PENDING", "APPROVED"}]}

NoScoring ==
    /\ auPairProfile = [languages |-> None, preferredCountries |-> None,
                        dateOfBirth |-> None, availableFrom |-> None,
                        availableTo |-> None, hourlyRate |-> None]
    /\ hostProfile = [preferredLanguages |-> None, country |-> None,
                      childrenAges |-> None, maxBudget |-> None]
    /\ scoring = None

Statuses == {"PENDING", "APPROVED", "REJECTED", "CANCELLED", "COMPLETED"}

\* Booking requests handled one at a time.
Init ==
    /\ NoScoring
    /\ NoRanking
    /\ now = 0
    /\ matches \in MatchTables
    /\ bookings = {}
    /\ nextBookingId = 1
    /\ handlers = <<>>

Next ==
    \/ Tick
    \/ \E u \in UserIds, t \in Targets, s \in DateInputs, e \in DateInputs :
           CreateBooking(u, t, s, e)
    \/ \E u \in UserIds, id \in BookingIds, st \in Statuses :
           UpdateBookingStatus(u, id, st)
    \/ \E u \in UserIds, id \in BookingIds, s \in DateInputs, e \in DateInputs :
           UpdateBooking(u, id, s, e)
    \/ \E u \in UserIds, id \in BookingIds : DeleteBooking(u, id)
    \/ \E a \in UserIds \cup {"ghost"}, s \in DateInputs, e \in DateInputs :
           GetAvailability(a, s, e)
    \/ \E u \in UserIds, id \in BookingIds : GetBooking(u, id)

Spec == Init /\ [][Next]_vars

(***************************************************************************)
(* POST / of the booking route, one handler per request, interleaved at    *)
(* its awaits: prisma.user.findUnique, prisma.match.findFirst,             *)
(* prisma.booking.findFirst and prisma.booking.create are separate         *)
(* statements of the database; no transaction spans them.                  *)
(***************************************************************************)
MaxHandlers == 2     \* requests in flight

HandlerIds == 1..MaxHandlers
IdleHandler ==
    [pc |-> "idle", userId |-> "h1", targetUserId |-> None,
     startDate |-> AbsentDate, endDate |-> AbsentDate, code |-> 0]

\* A handler that has answered with code and returned.
Done(code) == [IdleHandler EXCEPT !.pc = "done", !.code = code]

\* The handler after a check: it answers and returns, or goes on to pc.
AfterCheck(handler, r, pc) ==
    IF r = Pass THEN [handler EXCEPT !.pc = pc] ELSE Done(r.code)

\* The request arrives and its body is validated.
ReceiveCreate(h, userId, targetUserId, startDate, endDate) ==
    /\ handlers[h].pc = "idle"
    /\ handlers' =
          [handlers EXCEPT ![h] =
              AfterCheck([IdleHandler EXCEPT !.userId = userId,
                                             !.targetUserId = targetUserId,
                                             !.startDate = startDate,
                                             !.endDate = endDate],
                         ValidateCreate(targetUserId, startDate, endDate, now),
                         "findTarget")]
    /\ UNCHANGED <<users, potential, auPairProfile, hostProfile, scoring, now, matches, bookings,
                   nextBookingId>>

\* await prisma.user.findUnique and the role check
FindTarget(h) ==
    /\ handlers[h].pc = "findTarget"
    /\ handlers' =
          [handlers EXCEPT ![h] =
              AfterCheck(@, CheckTarget(@.userId, Val(@.targetUserId)), "findMatch")]
    /\ UNCHANGED <<users, potential, auPairProfile, hostProfile, scoring, now, matches, bookings,
                   nextBookingId>>

\* await prisma.match.findFirst
FindMatch(h) ==
    /\ handlers[h].pc = "findMatch"
    /\ handlers' =
          [handlers EXCEPT ![h] =
              AfterCheck(@, CheckMatch(@.userId, Val(@.targetUserId), matches),
                         "findConflict")]
    /\ UNCHANGED <<users, potential, auPairProfile, hostProfile, scoring, now, matches, bookings,
                   nextBookingId>>

\* await prisma.booking.findFirst (the conflict query)
FindConflict(h) ==
    /\ handlers[h].pc = "findConflict"
    /\ handlers' =
          [handlers EXCEPT ![h] =
              AfterCheck(@, CheckConflict(@.userId, Val(@.targetUserId),
                                          @.startDate, @.endDate, bookings),
                         "create")]
    /\ UNCHANGED <<users, potential, auPairProfile, hostProfile, scoring, now, matches, bookings,
                   nextBookingId>>

\* await prisma.booking.create and the 201 response
Create(h) ==
    /\ handlers[h].pc = "create"
    /\ bookings' = bookings \cup
          {NewBooking(nextBookingId, handlers[h].userId, Val(handlers[h].targetUserId),
                      handlers[h].startDate, handlers[h].endDate)}
    /\ nextBookingId' = nextBookingId + 1
    /\ handlers' = [handlers EXCEPT ![h] = Done(201)]
    /\ UNCHANGED <<users, potential, auPairProfile, hostProfile, scoring, now, matches>>

InitConc ==
    /\ NoScoring
    /\ NoRanking
    /\ now = 0
    /\ matches \in MatchTables
    /\ bookings = {}
    /\ nextBookingId = 1
    /\ handlers = [h \in HandlerIds |-> IdleHandler]

NextConc ==
    \/ \E h \in HandlerIds, u \in UserIds, t \in Targets, s \in DateInputs,
          e \in DateInputs : ReceiveCreate(h, u, t, s, e)
    \/ \E h \in HandlerIds : FindTarget(h)
    \/ \E h \in HandlerIds : FindMatch(h)
    \/ \E h \in HandlerIds : FindConflict(h)
    \/ \E h \in HandlerIds : Create(h)

SpecConc == InitConc /\ [][NextConc]_vars

(***************************************************************************)
(* GET /potential and findMatches: the counterparties of a user, scored,   *)
(* sorted and cut to the limit of the query.                               *)
(***************************************************************************)
MaxUsers == 3        \* rows of prisma.user
DefaultLimit == 20

RankedAuPairProfile(languages) ==
    [languages |-> languages, preferredCountries |-> None, dateOfBirth |-> None,
     availableFrom |-> None, availableTo |-> None, hourlyRate |-> None]

RankedHostProfile(preferredLanguages) ==
    [preferredLanguages |-> preferredLanguages, country |-> None,
     childrenAges |-> None, maxBudget |-> None]

\* The rows a table is made of: an au pair or a host family, active or not,
\* without a profile or with one of two profiles of the role.
UserRows ==
    [role : {"AU_PAIR"}, isActive : BOOLEAN, hostFamilyProfile : {None},
     auPairProfile : {None, Some(RankedAuPairProfile(None)),
                      Some(RankedAuPairProfile(Some(<<Fr>>)))}]
        \cup [role : {"HOST_FAMILY"}, isActive : BOOLEAN, auPairProfile : {None},
              hostFamilyProfile : {None, Some(RankedHostProfile(Some(<<Fr>>))),
                                   Some(RankedHostProfile(Some(<<Fr, En>>)))}]

\* The id of a row is its position in the table.
RankedUserIds == 1..MaxUsers
UserTables == [RankedUserIds -> UserRows]

\* req.query.limit: absent, or a string.
LimitQueries ==
    {None} \cup {Some(q) : q \in {<<"0">>, <<"1">>, <<"2">>, <<"-", "1">>,
                                  <<"x">>, <<"1", "x">>}}

DigitValue(c) ==
    CASE c = "0" -> 0 [] c = "1" -> 1 [] c = "2" -> 2 [] c = "3" -> 3 [] c = "4" -> 4
      [] c = "5" -> 5 [] c = "6" -> 6 [] c = "7" -> 7 [] c = "8" -> 8 [] c = "9" -> 9
      [] OTHER -> -1

RECURSIVE DigitsValue(_, _)
\* The value of the longest prefix of decimal digits of str, after acc;
\* NaN (absent) when acc is absent and str starts with no digit.
DigitsValue(str, acc) ==
    IF str = <<>> \/ DigitValue(Head(str)) < 0
    THEN acc
    ELSE DigitsValue(Tail(str), Some(10 * (IF acc = None THEN 0 ELSE Val(acc))
                                       + DigitValue(Head(str))))

\* parseInt(string): an optional sign, then the leading digits; NaN without
\* a digit, and for undefined.
parseInt(str) ==
    IF ~IsPresent(str) \/ Val(str) = <<>> THEN None
    ELSE IF Head(Val(str)) = "-"
    THEN LET v == DigitsValue(Tail(Val(str)), None)
         IN  IF v = None THEN None ELSE Some(-Val(v))
    ELSE IF Head(Val(str)) = "+" THEN DigitsValue(Tail(Val(str)), None)
    ELSE DigitsValue(Val(str), None)

\* parseInt(req.query.limit) || 20: NaN and 0 are falsy.
queryLimit(str) ==
    LET n == parseInt(str)
    IN  IF n = None \/ Val(n) = 0 THEN DefaultLimit ELSE Val(n)

\* The user rows of a role that are active and not the caller's, in table
\* order, each with its id.
findMany(table, role, userId) ==
    SelectSeq([i \in 1..Len(table) |-> [id |-> i, row |-> table[i]]],
              LAMBDA u : u.row.role = role /\ u.row.isActive /\ u.id # userId)

\* Array.prototype.sort with (a, b) => b.matchScore - a.matchScore: stable,
\* by descending score.
InsertByScore(sorted, x) ==
    LET k == Cardinality({i \in 1..Len(sorted) : sorted[i].matchScore >= x.matchScore})
    IN  SubSeq(sorted, 1, k) \o <<x>> \o SubSeq(sorted, k + 1, Len(sorted))

RECURSIVE sortByScore(_)
sortByScore(s) ==
    IF s = <<>> THEN <<>>
    ELSE InsertByScore(sortByScore(SubSeq(s, 1, Len(s) - 1)), s[Len(s)])

\* Array.prototype.slice(0, end): a negative end counts from the end.
slice(s, end) ==
    LET k == IF end < 0
             THEN (IF Len(s) + end < 0 THEN 0 ELSE Len(s) + end)
             ELSE (IF end > Len(s) THEN Len(s) ELSE end)
    IN  SubSeq(s, 1, k)

\* .map(other => ({ ...other, matchScore })): the score of the au pair's
\* profile and the host family's profile, whichever of the two the user is.
scoreCounterparties(user, counterparties, clock) ==
    [i \in 1..Len(counterparties) |->
        LET other == counterparties[i].row
            auPair == IF user.role = "AU_PAIR" THEN user ELSE other
            host == IF user.role = "AU_PAIR" THEN other ELSE user
        IN  [id |-> counterparties[i].id,
             matchScore |-> calculateMatchScore(Val(auPair.auPairProfile),
                                                Val(host.hostFamilyProfile), clock)]]

\* findMatches(userId, limit) at an instant: the ranked entries, or the
\* error thrown for an unknown user.
findMatches(table, userId, limit, clock) ==
    IF userId \notin DOMAIN table
    THEN [threw |-> TRUE, matches |-> <<>>]
    ELSE LET user == table[userId]
             counterparties ==
                 IF user.role = "AU_PAIR" /\ IsPresent(user.auPairProfile)
                 THEN SelectSeq(findMany(table, "HOST_FAMILY", userId),
                                LAMBDA h : IsPresent(h.row.hostFamilyProfile))
                 ELSE IF user.role = "HOST_FAMILY" /\ IsPresent(user.hostFamilyProfile)
                 THEN SelectSeq(findMany(table, "AU_PAIR", userId),
                                LAMBDA a : IsPresent(a.row.auPairProfile))
                 ELSE <<>>
             potentialMatches == scoreCounterparties(user, counterparties, clock)
         IN  [threw |-> FALSE, matches |-> slice(sortByScore(potentialMatches), limit)]

\* GET /potential by an authenticated user.
GetPotential(userId, query) ==
    /\ potential = None
    /\ LET found == findMatches(users, userId, queryLimit(query), now)
       IN  potential' = Some([userId |-> userId, query |-> query,
                              status |-> IF found.threw THEN 500 ELSE 200,
                              matches |-> found.matches])
    /\ UNCHANGED <<users, auPairProfile, hostProfile, scoring, now, matches, bookings,
                   nextBookingId, handlers>>

InitRank ==
    /\ NoScoring
    /\ now = 0
    /\ StoreIdle
    /\ users \in UserTables
    /\ potential = None

NextRank ==
    \E userId \in RankedUserIds \cup {MaxUsers + 1}, query \in LimitQueries :
        GetPotential(userId, query)

SpecRank == InitRank /\ [][NextRank]_vars

(***************************************************************************)
(* routes/matches.ts: POST / (a match request), PUT /:matchId/status and   *)
(* DELETE /:matchId, handled one at a time.                                *)
(***************************************************************************)
MaxMatches == 3      \* match rows stored at a time

\* The users of the match routes, the id of a user its position: an au
\* pair and a host family with profiles, an administrator, and an au pair
\* whose account is inactive.
MatchUsers ==
    << [role |-> "AU_PAIR", isActive |-> TRUE, hostFamilyProfile |-> None,
        auPairProfile |-> Some(RankedAuPairProfile(Some(<<Fr>>)))],
       [role |-> "HOST_FAMILY", isActive |-> TRUE, auPairProfile |-> None,
        hostFamilyProfile |-> Some(RankedHostProfile(Some(<<Fr, En>>)))],
       [role |-> "ADMIN", isActive |-> TRUE, auPairProfile |-> None,
        hostFamilyProfile |-> None],
       [role |-> "AU_PAIR", isActive |-> FALSE, hostFamilyProfile |-> None,
        auPairProfile |-> None] >>

\* req.user of an authenticated request: an active user of the table.
Requesters == {u \in DOMAIN MatchUsers : MatchUsers[u].isActive}
\* req.body.targetUserId: absent, a user of the table, or an unknown id.
MatchTargets == {None} \cup {Some(t) : t \in 1..(Len(MatchUsers) + 1)}
MatchIds == 1..MaxMatches
MatchStatuses == {"PENDING", "APPROVED", "REJECTED"}

\* hostId and auPairId of POST /: the user when its role is the column's,
\* the target otherwise.
matchHostId(userRole, userId, targetUserId) ==
    IF userRole = "HOST_FAMILY" THEN userId ELSE targetUserId
matchAuPairId(userRole, userId, targetUserId) ==
    IF userRole = "AU_PAIR" THEN userId ELSE targetUserId

\* Mutant: the lookup of an existing match passes over rejected matches.
ExistingMatchNotRejected(mts, hostId, auPairId) ==
    {m \in mts : m.hostId = hostId /\ m.auPairId = auPairId /\ m.status # "REJECTED"}

\* The rows prisma.match.findFirst can return for the pair.
ExistingMatch(mts, hostId, auPairId) ==
    {m \in mts : m.hostId = hostId /\ m.auPairId = auPairId}

\* POST /: the response.
CreateMatchReply(userId, targetUserId, table, mts) ==
    IF ~IsPresent(targetUserId) THEN Reply(400, "required")
    ELSE IF Val(targetUserId) = userId THEN Reply(400, "self")
    ELSE IF Val(targetUserId) \notin DOMAIN table \/ ~table[Val(targetUserId)].isActive
    THEN Reply(404, "targetNotFound")
    ELSE LET userRole == table[userId].role
             targetRole == table[Val(targetUserId)].role
         IN  IF \/ (userRole = "AU_PAIR" /\ targetRole # "HOST_FAMILY")
                \/ (userRole = "HOST_FAMILY" /\ targetRole # "AU_PAIR")
             THEN Reply(400, "roles")
             ELSE IF ExistingMatch(mts, matchHostId(userRole, userId, Val(targetUserId)),
                                   matchAuPairId(userRole, userId, Val(targetUserId))) # {}
             THEN Reply(400, "matchExists")
             ELSE Reply(201, "created")

\* The score stored with a new match: calculateMatchScore of the au pair's
\* and the host family's profiles when the user is one of the two and both
\* profiles exist, 0 otherwise.
newMatchScore(userId, targetUserId, table, clock) ==
    LET userRole == table[userId].role
        auPair == IF userRole = "AU_PAIR" THEN table[userId] ELSE table[targetUserId]
        host == IF userRole = "HOST_FAMILY" THEN table[userId] ELSE table[targetUserId]
    IN  IF /\ userRole \in {"AU_PAIR", "HOST_FAMILY"}
           /\ IsPresent(auPair.auPairProfile)
           /\ IsPresent(host.hostFamilyProfile)
        THEN calculateMatchScore(Val(auPair.auPairProfile), Val(host.hostFamilyProfile),
                                 clock)
        ELSE 0

NewMatch(id, userId, targetUserId, table, clock) ==
    [id |-> id,
     hostId |-> matchHostId(table[userId].role, userId, targetUserId),
     auPairId |-> matchAuPairId(table[userId].role, userId, targetUserId),
     matchScore |-> newMatchScore(userId, targetUserId, table, clock),
     initiatedBy |-> table[userId].role,
     status |-> "PENDING"]

\* The match table after POST / (a row is written on 201 only).
MatchesAfterCreate(userId, targetUserId, table, mts, clock, id) ==
    IF CreateMatchReply(userId, targetUserId, table, mts).code = 201
    THEN mts \cup {NewMatch(id, userId, Val(targetUserId), table, clock)}
    ELSE mts

\* POST /, the new row under an id no row has.
CreateMatch(userId, targetUserId, id) ==
    /\ id \notin {m.id : m \in matches}
    /\ matches' = MatchesAfterCreate(userId, targetUserId, users, matches, now, id)
    /\ UNCHANGED <<users, potential, auPairProfile, hostProfile, scoring, now, bookings,
                   nextBookingId, handlers>>

\* PUT /:matchId/status
UpdateMatchStatusReply(userId, matchId, status, mts) ==
    IF status \notin {"APPROVED", "REJECTED"} THEN Reply(400, "invalidStatus")
    ELSE LET found == {m \in mts : m.id = matchId}
         IN  IF found = {} THEN Reply(404, "matchNotFound")
             ELSE IF Val(found).hostId # userId /\ Val(found).auPairId # userId
             THEN Reply(403, "notParty")
             ELSE Reply(200, "statusUpdated")

MatchesAfterStatus(userId, matchId, status, mts) ==
    IF UpdateMatchStatusReply(userId, matchId, status, mts).code = 200
    THEN {IF m.id = matchId THEN [m EXCEPT !.status = status] ELSE m : m \in mts}
    ELSE mts

UpdateMatchStatus(userId, matchId, status) ==
    /\ matches' = MatchesAfterStatus(userId, matchId, status, matches)
    /\ UNCHANGED <<users, potential, auPairProfile, hostProfile, scoring, now, bookings,
                   nextBookingId, handlers>>

\* DELETE /:matchId
DeleteMatchReply(userId, matchId, mts) ==
    LET found == {m \in mts : m.id = matchId}
    IN  IF found = {} THEN Reply(404, "matchNotFound")
        ELSE IF Val(found).hostId # userId /\ Val(found).auPairId # userId
        THEN Reply(403, "notParty")
        ELSE Reply(200, "deleted")

MatchesAfterDelete(userId, matchId, mts) ==
    IF DeleteMatchReply(userId, matchId, mts).code = 200
    THEN {m \in mts : m.id # matchId}
    ELSE mts

DeleteMatch(userId, matchId) ==
    /\ matches' = MatchesAfterDelete(userId, matchId, matches)
    /\ UNCHANGED <<users, potential, auPairProfile, hostProfile, scoring, now, bookings,
                   nextBookingId, handlers>>

InitMatch ==
    /\ NoScoring
    /\ now = 0
    /\ StoreIdle
    /\ users = MatchUsers
    /\ potential = None

NextMatch ==
    \/ \E u \in Requesters, t \in MatchTargets, id \in MatchIds : CreateMatch(u, t, id)
    \/ \E u \in Requesters, id \in MatchIds, st \in MatchStatuses \cup {"CANCELLED"} :
           UpdateMatchStatus(u, id, st)
    \/ \E u \in Requesters, id \in MatchIds : DeleteMatch(u, id)

SpecMatch == InitMatch /\ [][NextMatch]_vars

(***************************************************************************)
(* Properties of the scorer, checked under SpecScore and SpecCase.         *)
(***************************************************************************)
Scored == IsPresent(scoring)
Parts == Val(scoring).parts
Result == Val(scoring).result
CallClock == Val(scoring).clock
RatSub(a, b) == RatAdd(a, [num |-> -b.num, den |-> b.den])

\* A real number rounded to the nearest integer, a half rounding up.
RoundHalfUp(x) == (2 * x.num + x.den) \div (2 * x.den)

\* Case-insensitive equality of characters and of strings, stated on its own.
SameLetter(c, d) ==
    \/ c = d
    \/ {c, d} \in {{"f", "F"}, {"r", "R"}, {"e", "E"}, {"n", "N"}}
SameIgnoringCase(s, t) ==
    /\ Len(s) = Len(t)
    /\ \A i \in DOMAIN s : SameLetter(s[i], t[i])

\* C1: calculateMatchScore returns an integer in the closed range [0,100].
C1_ScoreInRange == Scored => Result \in 0..100

\* C5: budget fit sub-score. With rate and budget present non-negative
\* numbers (0 included): 100 when rate <= budget; otherwise 70 when
\* rate/budget <= 1.2, 40 when rate/budget <= 1.5, else 10; 50 only when
\* the rate or the budget is absent.
C5_BudgetFit ==
    Scored =>
        LET rate == auPairProfile.hourlyRate
            budget == hostProfile.maxBudget
        IN  IF ~IsPresent(rate) \/ ~IsPresent(budget)
            THEN Parts.budgetScore = 50
            ELSE Parts.budgetScore =
                    IF Val(rate) <= Val(budget) THEN 100
                    ELSE IF 10 * Val(rate) <= 12 * Val(budget) THEN 70
                    ELSE IF 10 * Val(rate) <= 15 * Val(budget) THEN 40
                    ELSE 10

\* C6: language sub-score. With no preferred languages the language factor
\* contributes exactly 30 points whatever the au pair's languages are;
\* otherwise the sub-score is (number of au pair languages equal, ignoring
\* case, to some preferred language) / (number of preferred languages) * 100
\* and contributes 0.3 of that.
MatchingLanguages(langs, prefs) ==
    {i \in DOMAIN langs : \E j \in DOMAIN prefs : SameIgnoringCase(langs[i], prefs[j])}

C6_LanguageSubScore ==
    Scored =>
        LET langs == OrEmpty(auPairProfile.languages)
            prefs == OrEmpty(hostProfile.preferredLanguages)
            n == Cardinality(MatchingLanguages(langs, prefs))
        IN  IF Len(prefs) = 0
            THEN Parts.steps[1] = Num(30)
            ELSE /\ Parts.languageScore.num * Len(prefs) = 100 * n * Parts.languageScore.den
                 /\ Parts.steps[1].num * 10 * Len(prefs) = 3 * 100 * n * Parts.steps[1].den

C6_Witness ==
    /\ Scored
    /\ LET langs == OrEmpty(auPairProfile.languages)
           prefs == OrEmpty(hostProfile.preferredLanguages)
       IN  /\ Len(prefs) = 2
           /\ Cardinality(MatchingLanguages(langs, prefs)) = 1
           /\ \E i \in DOMAIN langs, j \in DOMAIN prefs :
                  SameIgnoringCase(langs[i], prefs[j]) /\ langs[i] # prefs[j]

\* C7: the score does not change when the letter case of language strings
\* changes on either side (checked under SpecCase).
KnownStrings == {Fr, FrCap, FrUpper, En, <<"E", "N">>, Da, Sv, No}
CaseVariantsOfList(l) ==
    {m \in [DOMAIN l -> KnownStrings] : \A i \in DOMAIN l : SameIgnoringCase(l[i], m[i])}
CaseVariants(o) ==
    IF IsPresent(o) THEN {Some(m) : m \in CaseVariantsOfList(Val(o))} ELSE {None}

C7_CaseInvariant ==
    Scored =>
        \A ls \in CaseVariants(auPairProfile.languages),
           ps \in CaseVariants(hostProfile.preferredLanguages) :
            calculateMatchScore([auPairProfile EXCEPT !.languages = ls],
                                [hostProfile EXCEPT !.preferredLanguages = ps],
                                CallClock) = Result

C7_Witness ==
    /\ Scored
    /\ auPairProfile.languages = Some(<<FrCap, En>>)
    /\ hostProfile.preferredLanguages = Some(<<Fr>>)
    /\ Parts.languageScore = Num(100)

\* C8: the country factor contributes exactly 25 points when the host's
\* country is an element of the au pair's preferred countries by exact,
\* case-sensitive equality, and exactly 0 otherwise.
CountryContribution == RatSub(Parts.steps[2], Parts.steps[1])

C8_CountryExact ==
    Scored =>
        LET prefs == auPairProfile.preferredCountries
            country == hostProfile.country
            listed == /\ IsPresent(prefs)
                      /\ IsPresent(country)
                      /\ \E i \in DOMAIN Val(prefs) : Val(prefs)[i] = Val(country)
        IN  CountryContribution = IF listed THEN Num(25) ELSE Num(0)

C8_Witness ==
    /\ Scored
    /\ auPairProfile.preferredCountries = Some(<<En, Fr>>)
    /\ hostProfile.country = Some(FrUpper)
    /\ CountryContribution = Num(0)

\* C9: age suitability sub-score. 50 when the birth date is absent or there
\* are no children's ages; otherwise, with the age in whole years, 100 if
\* some child is aged <= 10 and the age is in [18,30]; else 100 if some
\* child is aged >= 11 and the age is in [20,35]; else 70 if the age is in
\* [18,35]; else 30.
WholeYears(elapsed) ==
    CHOOSE k \in -1..60 : k * YearUnits <= elapsed /\ elapsed < (k + 1) * YearUnits

C9_AgeSubScore ==
    Scored =>
        LET birth == auPairProfile.dateOfBirth
            ages == OrEmpty(hostProfile.childrenAges)
        IN  IF ~IsPresent(birth) \/ ages = <<>>
            THEN Parts.ageScore = 50
            ELSE LET age == WholeYears(CallClock - Val(birth))
                     young == \E i \in DOMAIN ages : ages[i] <= 10
                     teen == \E i \in DOMAIN ages : ages[i] >= 11
                 IN  Parts.ageScore =
                         IF young /\ age \in 18..30 THEN 100
                         ELSE IF teen /\ age \in 20..35 THEN 100
                         ELSE IF age \in 18..35 THEN 70
                         ELSE 30

C9_Witness ==
    /\ Scored
    /\ hostProfile.childrenAges = Some(<<10>>)
    /\ IsPresent(auPairProfile.dateOfBirth)
    /\ WholeYears(CallClock - Val(auPairProfile.dateOfBirth)) = 30
    /\ Parts.ageScore = 100

\* C10: availability fit sub-score. 50 when availableFrom or availableTo is
\* absent; 100 when the reference start lies in [availableFrom, availableTo],
\* both bounds included; otherwise, with d the absolute distance in days
\* between the reference start and availableFrom, 80 if d <= 30, 60 if
\* d <= 90, 30 if d <= 180, and 10 above that.
C10_AvailabilitySubScore ==
    Scored =>
        LET from == auPairProfile.availableFrom
            to == auPairProfile.availableTo
            start == CallClock
        IN  IF ~IsPresent(from) \/ ~IsPresent(to)
            THEN Parts.availabilityScore = 50
            ELSE LET d == Abs(start - Val(from))
                 IN  Parts.availabilityScore =
                         IF Val(from) <= start /\ start <= Val(to) THEN 100
                         ELSE IF d <= 30 * DayUnits THEN 80
                         ELSE IF d <= 90 * DayUnits THEN 60
                         ELSE IF d <= 180 * DayUnits THEN 30
                         ELSE 10

C10_Witness ==
    /\ Scored
    /\ IsPresent(auPairProfile.availableFrom)
    /\ auPairProfile.availableTo = Some(CallClock)
    /\ Val(auPairProfile.availableFrom) < CallClock
    /\ Parts.availabilityScore = 100


\* C11: the score is the weighted sum 0.30 * language + (25 or 0) +
\* 0.20 * age + 0.15 * availability + 0.10 * budget rounded to the nearest
\* integer, a half rounding up; with every optional field absent it is
\* round(30 + 0 + 10 + 7.5 + 5) = 53.
WeightedSum ==
    LET country == CountryContribution
    IN  RatAdd(RatAdd(RatAdd(RatAdd(RatMul(Rat(30, 100), Parts.languageScore), country),
                             RatMul(Rat(20, 100), Num(Parts.ageScore))),
                      RatMul(Rat(15, 100), Num(Parts.availabilityScore))),
               RatMul(Rat(10, 100), Num(Parts.budgetScore)))

AllAbsent ==
    /\ \A f \in DOMAIN auPairProfile : auPairProfile[f] = None
    /\ \A f \in DOMAIN hostProfile : hostProfile[f] = None

C11_RoundedWeightedSum ==
    Scored =>
        /\ CountryContribution \in {Num(0), Num(25)}
        /\ Result = RoundHalfUp(WeightedSum)
        /\ AllAbsent => Result = 53

\* C12: calculateMatchScore is a function of its two arguments alone: an
\* evaluation on the same profiles at any other instant returns the same
\* score.
C12_SameScoreAtEveryInstant ==
    Scored =>
        \A t \in 0..MaxTime :
            calculateMatchScore(auPairProfile, hostProfile, t) = Result

\* C13: for every combination of present and absent optional fields the
\* call returns a number and does not throw.
C13_Total == Scored => (~Val(scoring).threw /\ Result \in Nat)

\* A call on profiles with a birth date absent and children's ages present,
\* and a call on profiles with every field absent, have returned.
C13_Witness ==
    /\ Scored
    /\ ~Val(scoring).threw
    /\ auPairProfile.dateOfBirth = None
    /\ hostProfile.childrenAges = Some(<<10>>)
    /\ auPairProfile.languages = None
    /\ auPairProfile.availableFrom = Some(1)
    /\ auPairProfile.availableTo = None
    /\ Result \in Nat

(***************************************************************************)
(* Properties of the booking routes, checked under Spec and SpecConc.      *)
(***************************************************************************)
\* The closed intervals [s, e] and [s2, e2] have an instant in common.
ShareInstant(s, e, s2, e2) ==
    \E t \in Instants : s <= t /\ t <= e /\ s2 <= t /\ t <= e2

\* C2: against an active booking [s', e'] of the same au pair the conflict
\* check reports a conflict for a proposed interval [s, e] if and only if
\* the two closed intervals share an instant (touching at one boundary
\* instant included, a strict gap excluded).
C2_ConflictIffShareInstant ==
    \A b \in bookings :
        b.status \in {"PENDING", "APPROVED"} =>
            \A s, e \in Instants :
                s < e =>
                    (ConflictingBooking({b}, b.auPairId, s, e) # {}
                        <=> ShareInstant(s, e, b.startDate, b.endDate))

\* C3: only bookings in status PENDING or APPROVED of the au pair of the
\* request take part in conflict detection: the response of every create
\* request is the one it gets with all other bookings removed, and a
\* conflict is reported only when such a booking exists.
C3_OnlyActiveSameAuPair ==
    \A u \in UserIds, t \in UserIds, s, e \in DateInputs :
        LET relevant == {b \in bookings :
                            /\ b.auPairId = AuPairOf(u, t)
                            /\ b.status \in {"PENDING", "APPROVED"}}
            r == CreateBookingReply(u, Some(t), s, e, matches, bookings, now)
        IN  /\ r = CreateBookingReply(u, Some(t), s, e, matches, relevant, now)
            /\ r.msg = "conflict" => relevant # {}

\* A booking of an au pair stands next to an earlier rejected, cancelled or
\* completed booking of the same au pair whose interval it overlaps, and
\* with only that earlier booking stored a create request over an
\* overlapping interval is answered 201.
C3_Witness ==
    \E b1, b2 \in bookings :
        /\ b1.id < b2.id
        /\ b1.auPairId = b2.auPairId
        /\ b1.status \in {"REJECTED", "CANCELLED", "COMPLETED"}
        /\ b2.status = "PENDING"
        /\ ShareInstant(b1.startDate, b1.endDate, b2.startDate, b2.endDate)
        /\ b1.startDate < b1.endDate
        /\ CreateBookingReply(b1.hostId, Some(b1.auPairId), ValidDate(b1.startDate),
                              ValidDate(b1.endDate), matches, {b1}, 0).code = 201

\* C4: after any interleaving of concurrent create requests no two bookings
\* in status PENDING or APPROVED of the same au pair have overlapping
\* closed intervals.
C4_NoActiveOverlap ==
    \A b1, b2 \in bookings :
        (/\ b1.id # b2.id
         /\ b1.auPairId = b2.auPairId
         /\ b1.status \in {"PENDING", "APPROVED"}
         /\ b2.status \in {"PENDING", "APPROVED"})
            => ~ShareInstant(b1.startDate, b1.endDate, b2.startDate, b2.endDate)

\* prisma.match holds an APPROVED row of a host and an au pair.
HasApprovedMatch(hostId, auPairId) ==
    \E m \in matches : m.hostId = hostId /\ m.auPairId = auPairId /\ m.status = "APPROVED"

PresentTargets == Targets \ {None}

\* C15: POST / with start >= end, or with start before the current instant,
\* is answered 400 and writes no booking; a start equal to the current
\* instant (and before the end) passes both date checks.
C15_DateValidation ==
    \A u \in UserIds, t \in PresentTargets, s \in Instants, e \in Instants :
        LET reply == CreateBookingReply(u, t, ValidDate(s), ValidDate(e),
                                        matches, bookings, now)
        IN  /\ (s >= e \/ s < now) =>
                  /\ reply.code = 400
                  /\ reply.msg \in {"endNotAfterStart", "startInPast"}
                  /\ BookingsAfterCreate(u, t, ValidDate(s), ValidDate(e), matches,
                                         bookings, now, nextBookingId) = bookings
            /\ (s = now /\ s < e) =>
                  ValidateCreate(t, ValidDate(s), ValidDate(e), now) = Pass

\* At instant 1 a booking starting at 1 is stored, a request starting at 1
\* would be created, one starting at 0 is refused as past and one ending
\* at its start is refused.
C15_Witness ==
    /\ now = 1
    /\ \E b \in bookings : b.auPairId = "a2" /\ b.startDate = 1
    /\ CreateBookingReply("h1", Some("a1"), ValidDate(1), ValidDate(2),
                          matches, bookings, now).code = 201
    /\ CreateBookingReply("h1", Some("a1"), ValidDate(0), ValidDate(2),
                          matches, bookings, now) = Reply(400, "startInPast")
    /\ CreateBookingReply("h1", Some("a1"), ValidDate(2), ValidDate(2),
                          matches, bookings, now) = Reply(400, "endNotAfterStart")

\* C16: for a proposed interval with start < end and a stored active
\* booking with start <= end, the three conditions of the conflict query
\* select the booking exactly when booking.start <= proposed.end and
\* booking.end >= proposed.start.
C16_ThreeConditionsAreOverlap ==
    \A b \in bookings, s \in Instants, e \in Instants :
        (s < e /\ b.startDate <= b.endDate /\ b.status \in ActiveStatuses) =>
            (b \in ConflictingBooking(bookings, b.auPairId, s, e)
                <=> (b.startDate <= e /\ b.endDate >= s))

\* An active booking [1, 1] is stored: it lies inside the proposal [0, 2].
C16_Witness ==
    \E b \in bookings :
        /\ b.status \in ActiveStatuses
        /\ b.startDate = 1
        /\ b.endDate = 1
        /\ b \in ConflictingBooking(bookings, b.auPairId, 0, 2)

\* C17: with requests handled one at a time, no two distinct active
\* bookings of the same au pair have intervals with a common instant.
C17_NoActiveOverlapSequential ==
    \A b1 \in bookings : \A b2 \in bookings \ {b1} :
        (/\ b1.auPairId = b2.auPairId
         /\ b1.status \in ActiveStatuses
         /\ b2.status \in ActiveStatuses)
            => (b1.endDate < b2.startDate \/ b2.endDate < b1.startDate)

\* C18: every stored booking starts before it ends.
C18_StartBeforeEnd == \A b \in bookings : b.startDate < b.endDate

\* C19: for an au pair and an interval [s, e] with s < e, the availability
\* query returns at least one booked slot exactly when the conflict check
\* of POST / refuses a booking of that au pair for [s, e].
C19_AvailabilityIffConflict ==
    \A a \in {"a1", "a2"}, s \in Instants, e \in Instants :
        s < e =>
            (AvailabilityReply(a, ValidDate(s), ValidDate(e), bookings, now).bookedSlots # {}
                <=> CheckConflict("h1", a, ValidDate(s), ValidDate(e), bookings)
                        = Reply(400, "conflict"))

StatusInputs == Statuses \cup {"EXPIRED"}
AcceptedStatuses == {"APPROVED", "REJECTED", "CANCELLED", "COMPLETED"}

\* C22: POST / stores a booking as PENDING; a status update with a status
\* other than APPROVED, REJECTED, CANCELLED and COMPLETED is answered 400
\* and changes no booking, and no status update makes a booking PENDING.
C22_PendingOnlyAtCreation ==
    /\ \A u \in UserIds, t \in Targets, s \in DateInputs, e \in DateInputs :
           \A b \in BookingsAfterCreate(u, t, s, e, matches, bookings, now,
                                        nextBookingId) \ bookings :
               b.status = "PENDING"
    /\ \A u \in UserIds, id \in BookingIds, st \in StatusInputs :
           LET after == BookingsAfterStatus(u, id, st, bookings, now)
           IN  /\ st \notin AcceptedStatuses =>
                     /\ UpdateStatusReply(u, id, st, bookings, now).code = 400
                     /\ after = bookings
               /\ \A b \in after \ bookings : b.status # "PENDING"

\* A booking that has left PENDING is stored, and a request of its host to
\* make it PENDING would be answered 400.
C22_Witness ==
    \E b \in bookings :
        /\ b.status \in AcceptedStatuses
        /\ UpdateStatusReply(b.hostId, b.id, "PENDING", bookings, now)
               = Reply(400, "invalidStatus")

Outsider(b, u) == u \in UserIds /\ ~IsParty(b, u)

\* C25 as stated: every view, status update, details update and delete
\* request of a user that is not a party of the booking is answered 403
\* and changes no booking.
C25_OutsiderAlways403 ==
    \A b \in bookings, u \in UserIds :
        Outsider(b, u) =>
            /\ GetBookingReply(u, b.id, bookings).code = 403
            /\ \A st \in StatusInputs :
                   /\ UpdateStatusReply(u, b.id, st, bookings, now).code = 403
                   /\ BookingsAfterStatus(u, b.id, st, bookings, now) = bookings
            /\ \A s \in DateInputs, e \in DateInputs :
                   /\ UpdateBookingReply(u, b.id, s, e, bookings, now).code = 403
                   /\ BookingsAfterUpdate(u, b.id, s, e, bookings, now) = bookings
            /\ DeleteBookingReply(u, b.id, bookings).code = 403
            /\ BookingsAfterDelete(u, b.id, bookings) = bookings

\* C25, amended: such a request reads and changes nothing; it is answered
\* 403, except a status update with a status that is not accepted, which
\* is answered 400 as for every user.
C25_OutsiderRefused ==
    \A b \in bookings, u \in UserIds :
        Outsider(b, u) =>
            /\ GetBookingReply(u, b.id, bookings) = [code |-> 403, booking |-> None]
            /\ \A st \in StatusInputs :
                   /\ UpdateStatusReply(u, b.id, st, bookings, now).code
                          = IF st \in AcceptedStatuses THEN 403 ELSE 400
                   /\ BookingsAfterStatus(u, b.id, st, bookings, now) = bookings
            /\ \A s \in DateInputs, e \in DateInputs :
                   /\ UpdateBookingReply(u, b.id, s, e, bookings, now).code = 403
                   /\ BookingsAfterUpdate(u, b.id, s, e, bookings, now) = bookings
            /\ DeleteBookingReply(u, b.id, bookings).code = 403
            /\ BookingsAfterDelete(u, b.id, bookings) = bookings

\* A PENDING booking of h1 and a1 is stored: a2 is no party of it, and its
\* delete request would succeed for a party.
C25_Witness ==
    \E b \in bookings :
        /\ b.hostId = "h1"
        /\ b.auPairId = "a1"
        /\ b.status = "PENDING"
        /\ Outsider(b, "a2")
        /\ DeleteBookingReply("a2", b.id, bookings) = Reply(403, "notParty")
        /\ DeleteBookingReply("a1", b.id, bookings).code = 200

(***************************************************************************)
(* Properties of the ranking, checked under SpecRank.                      *)
(***************************************************************************)
Ranked == IsPresent(potential) /\ Val(potential).status = 200
Returned == Val(potential).matches
Caller == users[Val(potential).userId]

\* The decimal numerals a caller supplies as N.
Numeral(n) == CASE n = 0 -> <<"0">> [] n = 1 -> <<"1">> [] n = 2 -> <<"2">>

\* The N of the request: the number supplied, 20 when none is supplied.
SuppliedN ==
    IF Val(potential).query = None THEN {20}
    ELSE {n \in 0..2 : Numeral(n) = Val(Val(potential).query)}

OppositeRole(role) == IF role = "AU_PAIR" THEN "HOST_FAMILY" ELSE "AU_PAIR"

ProfileOf(row) ==
    IF row.role = "AU_PAIR" THEN row.auPairProfile ELSE row.hostFamilyProfile

\* Active users of the opposite role, other than the caller, with a profile.
Eligible ==
    {i \in DOMAIN users :
        /\ users[i].isActive
        /\ users[i].role = OppositeRole(Caller.role)
        /\ i # Val(potential).userId
        /\ IsPresent(ProfileOf(users[i]))}

ReturnedIds == {Returned[k].id : k \in DOMAIN Returned}

Min(a, b) == IF a < b THEN a ELSE b

\* The score of counterparty i for the caller.
PairScore(i) ==
    IF Caller.role = "AU_PAIR"
    THEN calculateMatchScore(Val(Caller.auPairProfile), Val(users[i].hostFamilyProfile), now)
    ELSE calculateMatchScore(Val(users[i].auPairProfile), Val(Caller.hostFamilyProfile), now)

\* C14: for a request of a caller that has a profile, with N supplied as a
\* number, or with none (N = 20), the response lists eligible
\* counterparties, each once and with its score, exactly min(N, number of
\* eligible counterparties) of them, by non-increasing score, each scoring
\* at least as high as every omitted one, and equal scores in table order.
C14_Ranking ==
    (Ranked /\ IsPresent(ProfileOf(Caller))) =>
        \A n \in SuppliedN :
            /\ ReturnedIds \subseteq Eligible
            /\ Cardinality(ReturnedIds) = Len(Returned)
            /\ Len(Returned) = Min(n, Cardinality(Eligible))
            /\ \A k \in DOMAIN Returned : Returned[k].matchScore = PairScore(Returned[k].id)
            /\ \A j, k \in DOMAIN Returned :
                   j < k => /\ Returned[j].matchScore >= Returned[k].matchScore
                            /\ Returned[j].matchScore = Returned[k].matchScore
                                   => Returned[j].id < Returned[k].id
            /\ \A k \in DOMAIN Returned, i \in Eligible \ ReturnedIds :
                   Returned[k].matchScore >= PairScore(i)

(***************************************************************************)
(* Properties of the match routes, checked under SpecMatch.                *)
(***************************************************************************)
\* A row links a host family as host to another user, an au pair.
LinksHostToAuPair(m) ==
    /\ m.hostId # m.auPairId
    /\ users[m.hostId].role = "HOST_FAMILY"
    /\ users[m.auPairId].role = "AU_PAIR"

\* C21: every stored match links a HOST_FAMILY user as host to a different
\* AU_PAIR user as au pair, and for every requester (au pair, host family
\* or administrator) and every target the row of a successful POST / does
\* so with both active and the requester as one of the two.
C21_MatchLinksHostToAuPair ==
    /\ \A m \in matches : LinksHostToAuPair(m)
    /\ \A u \in Requesters, t \in MatchTargets, id \in MatchIds :
           \A m \in MatchesAfterCreate(u, t, users, matches, now, id) \ matches :
               /\ LinksHostToAuPair(m)
               /\ users[m.hostId].isActive
               /\ users[m.auPairId].isActive
               /\ u \in {m.hostId, m.auPairId}

\* C26: at most one match row exists for a host and an au pair, and a POST /
\* for a pair that has a row, by either of the two and whatever the status
\* of the row, is answered 400 and writes nothing.
C26_OneMatchPerPair ==
    /\ \A m1 \in matches : \A m2 \in matches \ {m1} :
           ~(m1.hostId = m2.hostId /\ m1.auPairId = m2.auPairId)
    /\ \A u \in Requesters, t \in MatchTargets \ {None}, id \in MatchIds :
           LET hostId == matchHostId(users[u].role, u, Val(t))
               auPairId == matchAuPairId(users[u].role, u, Val(t))
           IN  (\E m \in matches : m.hostId = hostId /\ m.auPairId = auPairId) =>
                   /\ CreateMatchReply(u, t, users, matches).code = 400
                   /\ MatchesAfterCreate(u, t, users, matches, now, id) = matches

\* The match of host 2 and au pair 1 is stored REJECTED, and a request of
\* either of the two for the other would be answered 400.
C26_Witness ==
    /\ \E m \in matches : m.hostId = 2 /\ m.auPairId = 1 /\ m.status = "REJECTED"
    /\ CreateMatchReply(1, Some(2), users, matches) = Reply(400, "matchExists")
    /\ CreateMatchReply(2, Some(1), users, matches) = Reply(400, "matchExists")
    /\ Cardinality(matches) < MaxMatches

====
